---- MODULE Spec2Model ----
(***************************************************************************)
(* Model of src/payment/types.rs: identifiers and wire encodings of the    *)
(* payment-channel types (ExtensionId, TxType, ChannelId, ShortChannelId,  *)
(* AnnouncedNodeAddr, AddressList).                                        *)
(*                                                                         *)
(* Every operation of the file is a pure function.  The state records the  *)
(* last operation applied (op), the value it was applied to (input), the   *)
(* intermediate value of a two-step round trip (wire) and the final result *)
(* (output).  Byte arrays are sequences of numbers in 0..255; Rust's       *)
(* 0-based index i is position i + 1.                                      *)
(***************************************************************************)
EXTENDS Integers, Sequences, FiniteSets, TLC

VARIABLES op, input, wire, output

vars == <<op, input, wire, output>>

(***************************************************************************)
(* Bounds of the model                                                     *)
(***************************************************************************)
\* longest AddressList that is enumerated
MaxListLen == 2

(***************************************************************************)
(* Rust value shapes                                                       *)
(***************************************************************************)
None == [some |-> FALSE]

Some(x) == [some |-> TRUE, v |-> x]

Ok(x) == [ok |-> TRUE, v |-> x]

Err(e) == [ok |-> FALSE, err |-> e]

\* a function that returns a plain value, or unwinds
Returned(x) == [panic |-> FALSE, v |-> x]

Panicked == [panic |-> TRUE]

Pow2(n) == 2 ^ n

\* slice[i] with Rust's 0-based index
At(s, i) == s[i + 1]

\* s[from..] with Rust's 0-based index
SliceFrom(s, from) == SubSeq(s, from + 1, Len(s))

RECURSIVE BitXor(_, _)
\* a ^ b on unsigned integers
BitXor(a, b) ==
    IF a = 0 THEN b
    ELSE IF b = 0 THEN a
    ELSE ((a + b) % 2) + 2 * BitXor(a \div 2, b \div 2)

\* u16::to_be_bytes
u16_to_be_bytes(n) == <<(n \div 256) % 256, n % 256>>

\* u16::from_be_bytes
u16_from_be_bytes(b) == At(b, 0) * 256 + At(b, 1)

\* u32::to_be_bytes
u32_to_be_bytes(n) ==
    <<(n \div Pow2(24)) % 256, (n \div Pow2(16)) % 256, (n \div Pow2(8)) % 256, n % 256>>

\* io::Read::read_exact on a reader holding the bytes d: n bytes and the
\* reader past them, or an UnexpectedEof error
read_exact(d, n) ==
    IF Len(d) >= n
    THEN [ok |-> TRUE, bytes |-> SubSeq(d, 1, n), rest |-> SubSeq(d, n + 1, Len(d))]
    ELSE [ok |-> FALSE, err |-> "UnexpectedEof"]

\* io::Write::write on an in-memory writer (Vec<u8>): the whole buffer is appended
write(e, buf) == e \o buf

(***************************************************************************)
(* Sample values the inputs are drawn from                                 *)
(***************************************************************************)
ByteSamples == {0, 1, 255}

\* arrays of n bytes: constant ones and descending ones (b, b-1, b-2, ...)
Arrays(n) ==
    {[i \in 1..n |-> (b + 256 * n - d * (i - 1)) % 256] : b \in ByteSamples, d \in {0, 1}}

U16Samples == {0, 1, 2, 11, 12, 255, 256, 257, 2816, 9735, 65535}

U32Samples == U16Samples \cup
    {65536, 65537, Pow2(24) - 1, Pow2(24), Pow2(24) + 1, 2147483647}

(***************************************************************************)
(* ExtensionId                                                             *)
(***************************************************************************)
ExtensionIdVariants ==
    <<"Channel", "Bolt3", "Eltoo", "Taproot", "Htlc", "Ptlc", "ShutdownScript",
      "AnchorOut", "Dlc", "Lightspeed", "Bip96", "Rgb">>

ExtensionId == {ExtensionIdVariants[i] : i \in DOMAIN ExtensionIdVariants}

\* position of a variant in the declaration, from 0
Discriminant(id) == CHOOSE i \in 0..(Len(ExtensionIdVariants) - 1) : At(ExtensionIdVariants, i) = id

\* derived StrictEncode of a field-less enum: the discriminant in one byte
strict_serialize_ExtensionId(id) == Ok(<<Discriminant(id)>>)

\* derived StrictDecode through strict_deserialize: one byte is read as the
\* discriminant, and input left unread is an error
strict_deserialize_ExtensionId(data) ==
    LET r == read_exact(data, 1) IN
    IF ~r.ok THEN Err("Io")
    ELSE IF At(r.bytes, 0) >= Len(ExtensionIdVariants) THEN Err("EnumValueNotKnown")
    ELSE IF r.rest # <<>> THEN Err("DataNotEntirelyConsumed")
    ELSE Ok(At(ExtensionIdVariants, At(r.bytes, 0)))

\* impl From<ExtensionId> for u16: copy_from_slice into [0u8; 2] unwinds
\* unless the source slice has exactly 2 bytes
u16_from_ExtensionId(id) ==
    LET ser == strict_serialize_ExtensionId(id) IN
    IF ~ser.ok THEN Panicked
    ELSE IF Len(ser.v) # 2 THEN Panicked
    ELSE Returned(u16_from_be_bytes(ser.v))

\* impl TryFrom<u16> for ExtensionId
ExtensionId_try_from(value) == strict_deserialize_ExtensionId(u16_to_be_bytes(value))

(***************************************************************************)
(* TxType                                                                  *)
(***************************************************************************)
HtlcSuccess == [tag |-> "HtlcSuccess"]

HtlcTimeout == [tag |-> "HtlcTimeout"]

Unknown(x) == [tag |-> "Unknown", x |-> x]

TxTypeSamples == {HtlcSuccess, HtlcTimeout} \cup {Unknown(x) : x \in U16Samples}

\* impl From<TxType> for u16
u16_from_TxType(ty) ==
    CASE ty.tag = "HtlcSuccess" -> 0
      [] ty.tag = "HtlcTimeout" -> 1
      [] ty.tag = "Unknown" -> ty.x

\* TxType::from with the two well-known codes exchanged
TxType_from_Swapped(ty) ==
    CASE ty = 0 -> HtlcTimeout
      [] ty = 1 -> HtlcSuccess
      [] OTHER -> Unknown(ty)

\* impl From<u16> for TxType
TxType_from(ty) ==
    CASE ty = 0 -> HtlcSuccess
      [] ty = 1 -> HtlcTimeout
      [] OTHER -> Unknown(ty)

(***************************************************************************)
(* ChannelId                                                               *)
(***************************************************************************)
\* OutPoint { txid: 32 bytes, vout: u32 }
OutPoint(txid, vout) == [txid |-> txid, vout |-> vout]

OutPointSamples == {OutPoint(t, v) : t \in Arrays(32), v \in U32Samples}

\* ChannelId::with
ChannelId_with(funding_outpoint) ==
    LET slice == funding_outpoint.txid
        vout == u32_to_be_bytes(funding_outpoint.vout)
    IN [slice EXCEPT ![30 + 1] = BitXor(@, At(vout, 0)),
                     ![31 + 1] = BitXor(@, At(vout, 1))]

(***************************************************************************)
(* ShortChannelId                                                          *)
(***************************************************************************)
\* ShortChannelId::new
ShortChannelId_new(block_height, tx_index, output_index) ==
    IF block_height > 2 * Pow2(23) \/ tx_index > 2 * Pow2(23)
    THEN None
    ELSE Some([block_height |-> block_height, tx_index |-> tx_index,
               output_index |-> output_index])

\* impl StrictEncode for ShortChannelId, writing to the writer e
ShortChannelId_strict_encode(self, e) ==
    LET block_height == <<(self.block_height \div Pow2(16)) % 256,
                          (self.block_height \div Pow2(8)) % 256,
                          self.block_height % 256>>
        e1 == write(e, block_height)
        tx_index == <<(self.tx_index \div Pow2(16)) % 256,
                      (self.tx_index \div Pow2(8)) % 256,
                      self.tx_index % 256>>
        e2 == write(e1, tx_index)
        output_index == <<(self.output_index \div Pow2(8)) % 256,
                          self.output_index % 256>>
        e3 == write(e2, output_index)
    IN [ok |-> TRUE, len |-> Len(block_height) + Len(tx_index) + Len(output_index), e |-> e3]

\* impl StrictDecode for ShortChannelId, reading from the reader d
ShortChannelId_strict_decode(d) ==
    LET r1 == read_exact(d, 3) IN
    IF ~r1.ok THEN Err("Io")
    ELSE
    LET block_height == At(r1.bytes, 0) * Pow2(16) + At(r1.bytes, 1) * Pow2(8) + At(r1.bytes, 2)
        r2 == read_exact(r1.rest, 3)
    IN
    IF ~r2.ok THEN Err("Io")
    ELSE
    LET transaction_index == At(r2.bytes, 0) * Pow2(16) + At(r2.bytes, 1) * Pow2(8) + At(r2.bytes, 2)
        r3 == read_exact(r2.rest, 2)
    IN
    IF ~r3.ok THEN Err("Io")
    ELSE Ok([block_height |-> block_height, tx_index |-> transaction_index,
             output_index |-> At(r3.bytes, 0) * Pow2(8) + At(r3.bytes, 1)])

(***************************************************************************)
(* AnnouncedNodeAddr                                                       *)
(***************************************************************************)
\* strict_encoding::net::ADDR_LEN: the 32-byte key fills ip[1..]
ADDR_LEN == 33

IpV4(addr, port) == [tag |-> "IpV4", addr |-> addr, port |-> port]

IpV6(addr, port) == [tag |-> "IpV6", addr |-> addr, port |-> port]

OnionV2(addr, port) == [tag |-> "OnionV2", addr |-> addr, port |-> port]

OnionV3(ed25519_pubkey, checksum, version, port) ==
    [tag |-> "OnionV3", ed25519_pubkey |-> ed25519_pubkey, checksum |-> checksum,
     version |-> version, port |-> port]

PortSamples == {0, 9735, 65535}

ChecksumSamples == {None, Some(0), Some(32), Some(65535)}

VersionSamples == {None, Some(0), Some(16), Some(255)}

AddrSamples ==
    {IpV4(a, p) : a \in Arrays(4), p \in PortSamples}
    \cup {IpV6(a, p) : a \in Arrays(16), p \in PortSamples}
    \cup {OnionV2(a, p) : a \in Arrays(10), p \in PortSamples}
    \cup {OnionV3(k, c, v, p) : k \in Arrays(32), c \in ChecksumSamples,
                                v \in VersionSamples, p \in PortSamples}

\* AnnouncedNodeAddr::into_u8
into_u8(self) ==
    CASE self.tag = "IpV4" -> 1
      [] self.tag = "IpV6" -> 2
      [] self.tag = "OnionV2" -> 3
      [] self.tag = "OnionV3" -> 4

\* Uniform::addr_format
addr_format(self) == self.tag

\* let mut ip = [0u8; ADDR_LEN]; ip[from..].copy_from_slice(src)
ZeroedWith(from, src) ==
    [i \in 1..ADDR_LEN |-> IF i - 1 >= from /\ i - from <= Len(src) THEN src[i - from] ELSE 0]

\* Uniform::addr with the OnionV3 key copied to ip[..32] instead of ip[1..]
addr_KeyAtZero(self) ==
    CASE self.tag = "IpV4" -> ZeroedWith(29, self.addr)
      [] self.tag = "IpV6" -> ZeroedWith(17, self.addr)
      [] self.tag = "OnionV2" -> ZeroedWith(23, self.addr)
      [] self.tag = "OnionV3" -> ZeroedWith(0, self.ed25519_pubkey)

\* Uniform::addr
addr(self) ==
    CASE self.tag = "IpV4" -> ZeroedWith(29, self.addr)
      [] self.tag = "IpV6" -> ZeroedWith(17, self.addr)
      [] self.tag = "OnionV2" -> ZeroedWith(23, self.addr)
      [] self.tag = "OnionV3" -> ZeroedWith(1, self.ed25519_pubkey)

\* Uniform::port answering as Uniform::transport does
port_Absent(self) == None

\* Uniform::port
port(self) == Some(self.port)

\* Uniform::transport
transport(self) == None

\* Uniform::to_uniform_addr (provided method of the trait)
to_uniform_addr(self) ==
    [addr_format |-> addr_format(self), addr |-> addr(self), port |-> port(self),
     transport |-> transport(self)]

\* Uniform::from_uniform_addr_lossy with the OnionV3 checksum and version
\* filled with zeros instead of None
from_uniform_addr_lossy_ZeroFields(u) ==
    CASE u.addr_format = "IpV4" ->
            IF u.port.some THEN Ok(IpV4(SliceFrom(u.addr, 29), u.port.v))
            ELSE Err("InsufficientData")
      [] u.addr_format = "IpV6" ->
            IF u.port.some THEN Ok(IpV6(SliceFrom(u.addr, 17), u.port.v))
            ELSE Err("InsufficientData")
      [] u.addr_format = "OnionV2" ->
            IF u.port.some THEN Ok(OnionV2(SliceFrom(u.addr, 23), u.port.v))
            ELSE Err("InsufficientData")
      [] u.addr_format = "OnionV3" ->
            IF u.port.some THEN Ok(OnionV3(SliceFrom(u.addr, 1), Some(0), Some(0), u.port.v))
            ELSE Err("InsufficientData")
      [] OTHER -> Err("InvalidAddr")

\* Uniform::from_uniform_addr_lossy
from_uniform_addr_lossy(u) ==
    CASE u.addr_format = "IpV4" ->
            IF u.port.some THEN Ok(IpV4(SliceFrom(u.addr, 29), u.port.v))
            ELSE Err("InsufficientData")
      [] u.addr_format = "IpV6" ->
            IF u.port.some THEN Ok(IpV6(SliceFrom(u.addr, 17), u.port.v))
            ELSE Err("InsufficientData")
      [] u.addr_format = "OnionV2" ->
            IF u.port.some THEN Ok(OnionV2(SliceFrom(u.addr, 23), u.port.v))
            ELSE Err("InsufficientData")
      [] u.addr_format = "OnionV3" ->
            IF u.port.some THEN Ok(OnionV3(SliceFrom(u.addr, 1), None, None, u.port.v))
            ELSE Err("InsufficientData")
      [] OTHER -> Err("InvalidAddr")

\* Uniform::from_uniform_addr
from_uniform_addr(u) == from_uniform_addr_lossy(u)

\* the result of an encoder: Ok(len) or an error, and the writer as it was left
Encoded(len, e) == [ok |-> TRUE, len |-> len, e |-> e]

EncodeErr(err, e) == [ok |-> FALSE, err |-> err, e |-> e]

\* the three arms IpV4, IpV6, OnionV2 of lightning_encode: tag, address, port
EncodeTagAddrPort(self, e) ==
    LET tag == <<into_u8(self)>>
        e1 == write(e, tag)
        e2 == write(e1, self.addr)
        prt == u16_to_be_bytes(self.port)
        e3 == write(e2, prt)
    IN Encoded(Len(tag) + Len(self.addr) + Len(prt), e3)

\* the OnionV3 arm of lightning_encode with zeros written for a missing
\* checksum or version
EncodeOnionV3_ZeroForMissing(self, e) ==
    LET tag == <<into_u8(self)>>
        e1 == write(e, tag)
        e2 == write(e1, self.ed25519_pubkey)
        checksum == u16_to_be_bytes(IF self.checksum.some THEN self.checksum.v ELSE 0)
        e3 == write(e2, checksum)
        version == <<IF self.version.some THEN self.version.v ELSE 0>>
        e4 == write(e3, version)
        prt == u16_to_be_bytes(self.port)
        e5 == write(e4, prt)
    IN Encoded(Len(tag) + Len(self.ed25519_pubkey) + Len(checksum) + Len(version) + Len(prt), e5)

\* the OnionV3 arm of lightning_encode with both fields checked before
\* anything is written
EncodeOnionV3_CheckFirst(self, e) ==
    IF ~self.checksum.some \/ ~self.version.some THEN EncodeErr("InvalidData", e)
    ELSE
    LET tag == <<into_u8(self)>>
        e1 == write(e, tag)
        e2 == write(e1, self.ed25519_pubkey)
        checksum == u16_to_be_bytes(self.checksum.v)
        e3 == write(e2, checksum)
        version == <<self.version.v>>
        e4 == write(e3, version)
        prt == u16_to_be_bytes(self.port)
        e5 == write(e4, prt)
    IN Encoded(Len(tag) + Len(self.ed25519_pubkey) + Len(checksum) + Len(version) + Len(prt), e5)

\* the OnionV3 arm of lightning_encode
EncodeOnionV3(self, e) ==
    LET tag == <<into_u8(self)>>
        e1 == write(e, tag)
        e2 == write(e1, self.ed25519_pubkey)
    IN
    IF ~self.checksum.some THEN EncodeErr("InvalidData", e2)
    ELSE
    LET checksum == u16_to_be_bytes(self.checksum.v)
        e3 == write(e2, checksum)
    IN
    IF ~self.version.some THEN EncodeErr("InvalidData", e3)
    ELSE
    LET version == <<self.version.v>>
        e4 == write(e3, version)
        prt == u16_to_be_bytes(self.port)
        e5 == write(e4, prt)
    IN Encoded(Len(tag) + Len(self.ed25519_pubkey) + Len(checksum) + Len(version) + Len(prt), e5)

\* impl LightningEncode for AnnouncedNodeAddr, writing to the writer e
AnnouncedNodeAddr_lightning_encode(self, e) ==
    IF self.tag = "OnionV3" THEN EncodeOnionV3(self, e) ELSE EncodeTagAddrPort(self, e)

\* the result of a decoder: the value and the reader past it
Decoded(v, rest) == [ok |-> TRUE, v |-> v, rest |-> rest]

\* the arms 1, 2, 3 of lightning_decode with the port read little-endian
DecodeAddrPort_LePort(tag, n, d) ==
    LET ra == read_exact(d, n) IN
    IF ~ra.ok THEN Err("Io")
    ELSE
    LET rp == read_exact(ra.rest, 2) IN
    IF ~rp.ok THEN Err("Io")
    ELSE Decoded([tag |-> tag, addr |-> ra.bytes, port |-> At(rp.bytes, 1) * 256 + At(rp.bytes, 0)],
                 rp.rest)

\* the arms 1, 2, 3 of lightning_decode: n address bytes, then the port
DecodeAddrPort(tag, n, d) ==
    LET ra == read_exact(d, n) IN
    IF ~ra.ok THEN Err("Io")
    ELSE
    LET rp == read_exact(ra.rest, 2) IN
    IF ~rp.ok THEN Err("Io")
    ELSE Decoded([tag |-> tag, addr |-> ra.bytes, port |-> u16_from_be_bytes(rp.bytes)], rp.rest)

\* the arm 4 of lightning_decode
DecodeOnionV3(d) ==
    LET rk == read_exact(d, 32) IN
    IF ~rk.ok THEN Err("Io")
    ELSE
    LET rc == read_exact(rk.rest, 2) IN
    IF ~rc.ok THEN Err("Io")
    ELSE
    LET rv == read_exact(rc.rest, 1) IN
    IF ~rv.ok THEN Err("Io")
    ELSE
    LET rp == read_exact(rv.rest, 2) IN
    IF ~rp.ok THEN Err("Io")
    ELSE Decoded(OnionV3(rk.bytes, Some(u16_from_be_bytes(rc.bytes)), Some(At(rv.bytes, 0)),
                         u16_from_be_bytes(rp.bytes)),
                 rp.rest)

\* impl LightningDecode for AnnouncedNodeAddr, reading from the reader d
AnnouncedNodeAddr_lightning_decode(d) ==
    LET rt == read_exact(d, 1) IN
    IF ~rt.ok THEN Err("Io")
    ELSE
    LET type_byte == At(rt.bytes, 0) IN
    CASE type_byte = 1 -> DecodeAddrPort("IpV4", 4, rt.rest)
      [] type_byte = 2 -> DecodeAddrPort("IpV6", 16, rt.rest)
      [] type_byte = 3 -> DecodeAddrPort("OnionV2", 10, rt.rest)
      [] type_byte = 4 -> DecodeOnionV3(rt.rest)
      [] OTHER -> Err("DataIntegrityError")

(***************************************************************************)
(* AddressList                                                             *)
(***************************************************************************)
\* the addresses lists are built from: one of each family, and OnionV3
\* addresses that lack the checksum or the version
ListElemSamples ==
    {IpV4(<<255, 254, 253, 252>>, 9735),
     OnionV2([i \in 1..10 |-> 256 - i], 9735),
     OnionV3([i \in 1..32 |-> 256 - i], Some(32), Some(16), 9735),
     OnionV3([i \in 1..32 |-> 256 - i], None, Some(16), 9735),
     OnionV3([i \in 1..32 |-> 256 - i], Some(32), None, 9735)}

RECURSIVE SeqsUpTo(_, _)
\* the sequences over S of length at most n
SeqsUpTo(S, n) ==
    IF n = 0 THEN {<<>>}
    ELSE LET shorter == SeqsUpTo(S, n - 1) IN
         shorter \cup {Append(s, x) : s \in {t \in shorter : Len(t) = n - 1}, x \in S}

AddressListSamples == SeqsUpTo(ListElemSamples, MaxListLen)

RECURSIVE EncodeEach(_, _, _, _)
\* for addr in &self.0 { written += addr.lightning_encode(&mut e)?; }
EncodeEach(list, i, written, e) ==
    IF i > Len(list) THEN Encoded(written, e)
    ELSE LET r == AnnouncedNodeAddr_lightning_encode(list[i], e) IN
         IF ~r.ok THEN r
         ELSE EncodeEach(list, i + 1, written + r.len, r.e)

\* impl LightningEncode for AddressList
AddressList_lightning_encode(self, e) ==
    LET len == Len(self) % Pow2(16)
        lenb == u16_to_be_bytes(len)
        e1 == write(e, lenb)
    IN EncodeEach(self, 1, Len(lenb), e1)

RECURSIVE DecodeEach_Reversed(_, _, _)
\* the decoding loop with each address put in front of those read before it
DecodeEach_Reversed(n, data, d) ==
    IF n = 0 THEN Decoded(data, d)
    ELSE LET r == AnnouncedNodeAddr_lightning_decode(d) IN
         IF ~r.ok THEN r
         ELSE DecodeEach_Reversed(n - 1, <<r.v>> \o data, r.rest)

RECURSIVE DecodeEach_StopsAtError(_, _, _)
\* the decoding loop leaving at the first address that fails to decode, with
\* the addresses read so far
DecodeEach_StopsAtError(n, data, d) ==
    IF n = 0 THEN Decoded(data, d)
    ELSE LET r == AnnouncedNodeAddr_lightning_decode(d) IN
         IF ~r.ok THEN Decoded(data, d)
         ELSE DecodeEach_StopsAtError(n - 1, Append(data, r.v), r.rest)

RECURSIVE DecodeEach(_, _, _)
\* for _ in 0..len { data.push(AnnouncedNodeAddr::lightning_decode(&mut d)?); }
DecodeEach(n, data, d) ==
    IF n = 0 THEN Decoded(data, d)
    ELSE LET r == AnnouncedNodeAddr_lightning_decode(d) IN
         IF ~r.ok THEN r
         ELSE DecodeEach(n - 1, Append(data, r.v), r.rest)

RECURSIVE DecodeAttempts(_, _)
\* how many times the loop of AddressList::lightning_decode calls
\* AnnouncedNodeAddr::lightning_decode for a count n and the reader d
DecodeAttempts(n, d) ==
    IF n = 0 THEN 0
    ELSE LET r == AnnouncedNodeAddr_lightning_decode(d) IN
         IF ~r.ok THEN 1
         ELSE 1 + DecodeAttempts(n - 1, r.rest)

\* impl LightningDecode for AddressList
AddressList_lightning_decode(d) ==
    LET rl == read_exact(d, 2) IN
    IF ~rl.ok THEN Err("Io")
    ELSE DecodeEach(u16_from_be_bytes(rl.bytes), <<>>, rl.rest)

(***************************************************************************)
(* The state machine.  A behaviour is one use of the file: an operation    *)
(* applied to a fresh input, then the operations applied to its result.    *)
(***************************************************************************)
Init ==
    /\ op = "init"
    /\ input = None
    /\ wire = None
    /\ output = None

\* u16::from(id)
U16FromExtensionId ==
    \E id \in ExtensionId :
        /\ op = "init"
        /\ op' = "u16_from_ExtensionId"
        /\ input' = id
        /\ wire' = u16_from_ExtensionId(id)
        /\ output' = None

\* ExtensionId::try_from(value)
ExtensionIdTryFrom ==
    \E value \in U16Samples :
        /\ op = "init"
        /\ op' = "ExtensionId_try_from"
        /\ input' = value
        /\ wire' = ExtensionId_try_from(value)
        /\ output' = None

\* u16::from(ty)
U16FromTxType ==
    \E ty \in TxTypeSamples :
        /\ op = "init"
        /\ op' = "u16_from_TxType"
        /\ input' = ty
        /\ wire' = u16_from_TxType(ty)
        /\ output' = None

\* TxType::from of the number u16::from(ty) returned
TxTypeFromThat ==
    /\ op = "u16_from_TxType"
    /\ op' = "u16_from_TxType;TxType_from"
    /\ output' = TxType_from(wire)
    /\ UNCHANGED <<input, wire>>

\* TxType::from(n)
TxTypeFrom ==
    \E n \in U16Samples :
        /\ op = "init"
        /\ op' = "TxType_from"
        /\ input' = n
        /\ wire' = TxType_from(n)
        /\ output' = None

\* u16::from of the TxType that TxType::from(n) returned
U16FromThat ==
    /\ op = "TxType_from"
    /\ op' = "TxType_from;u16_from_TxType"
    /\ output' = u16_from_TxType(wire)
    /\ UNCHANGED <<input, wire>>

\* ChannelId::with(funding_outpoint)
ChannelIdWith ==
    \E funding_outpoint \in OutPointSamples :
        /\ op = "init"
        /\ op' = "ChannelId_with"
        /\ input' = funding_outpoint
        /\ wire' = ChannelId_with(funding_outpoint)
        /\ output' = None

\* ShortChannelId::new(block_height, tx_index, output_index)
ShortChannelIdNew ==
    \E block_height \in U32Samples, tx_index \in U32Samples, output_index \in U16Samples :
        /\ op = "init"
        /\ op' = "ShortChannelId_new"
        /\ input' = [block_height |-> block_height, tx_index |-> tx_index,
                     output_index |-> output_index]
        /\ wire' = ShortChannelId_new(block_height, tx_index, output_index)
        /\ output' = None

\* strict_encode of the ShortChannelId that new returned, into an empty writer
ShortChannelIdStrictEncode ==
    /\ op = "ShortChannelId_new"
    /\ wire.some
    /\ op' = "ShortChannelId_strict_encode"
    /\ input' = wire.v
    /\ wire' = ShortChannelId_strict_encode(wire.v, <<>>)
    /\ output' = None

\* strict_decode of the bytes strict_encode wrote
ShortChannelIdStrictDecode ==
    /\ op = "ShortChannelId_strict_encode"
    /\ wire.ok
    /\ op' = "ShortChannelId_strict_decode"
    /\ output' = ShortChannelId_strict_decode(wire.e)
    /\ UNCHANGED <<input, wire>>

\* x.lightning_encode(e) into an empty writer
AddrLightningEncode ==
    \E x \in AddrSamples :
        /\ op = "init"
        /\ op' = "AnnouncedNodeAddr_lightning_encode"
        /\ input' = x
        /\ wire' = AnnouncedNodeAddr_lightning_encode(x, <<>>)
        /\ output' = None

\* AnnouncedNodeAddr::lightning_decode of the bytes lightning_encode wrote
AddrLightningDecode ==
    /\ op = "AnnouncedNodeAddr_lightning_encode"
    /\ wire.ok
    /\ op' = "AnnouncedNodeAddr_lightning_decode"
    /\ output' = AnnouncedNodeAddr_lightning_decode(wire.e)
    /\ UNCHANGED <<input, wire>>

\* x.to_uniform_addr()
AddrToUniform ==
    \E x \in AddrSamples :
        /\ op = "init"
        /\ op' = "to_uniform_addr"
        /\ input' = x
        /\ wire' = to_uniform_addr(x)
        /\ output' = None

\* AnnouncedNodeAddr::from_uniform_addr of the uniform address
AddrFromUniform ==
    /\ op = "to_uniform_addr"
    /\ op' = "from_uniform_addr"
    /\ output' = from_uniform_addr(wire)
    /\ UNCHANGED <<input, wire>>

\* list.lightning_encode(e) into an empty writer
ListLightningEncode ==
    \E list \in AddressListSamples :
        /\ op = "init"
        /\ op' = "AddressList_lightning_encode"
        /\ input' = list
        /\ wire' = AddressList_lightning_encode(list, <<>>)
        /\ output' = None

\* AddressList::lightning_decode of the bytes lightning_encode wrote
ListLightningDecode ==
    /\ op = "AddressList_lightning_encode"
    /\ wire.ok
    /\ op' = "AddressList_lightning_decode"
    /\ output' = AddressList_lightning_decode(wire.e)
    /\ UNCHANGED <<input, wire>>

\* AddressList::lightning_decode of a stream that ends early: the first k
\* bytes of what lightning_encode wrote
ListLightningDecodeTruncated ==
    /\ op = "AddressList_lightning_encode"
    /\ wire.ok
    /\ \E k \in 0..(Len(wire.e) - 1) :
           /\ op' = "AddressList_lightning_decode(truncated)"
           /\ wire' = SubSeq(wire.e, 1, k)
           /\ output' = AddressList_lightning_decode(wire')
           /\ UNCHANGED input

\* y.lightning_encode(e) into an empty writer, for the address y that
\* from_uniform_addr returned
AddrLightningEncodeFromUniform ==
    /\ op = "from_uniform_addr"
    /\ output.ok
    /\ op' = "from_uniform_addr;lightning_encode"
    /\ wire' = output.v
    /\ output' = AnnouncedNodeAddr_lightning_encode(output.v, <<>>)
    /\ UNCHANGED input

\* what the caller's writer may hold before an encoder is called
WriterSamples == {<<>>, <<7>>, <<1, 2, 3>>}

\* x.lightning_encode(e) into a writer that already holds bytes
AddrLightningEncodeInto ==
    \E x \in AddrSamples, e \in WriterSamples :
        /\ op = "init"
        /\ op' = "AnnouncedNodeAddr_lightning_encode(e)"
        /\ input' = x
        /\ wire' = e
        /\ output' = AnnouncedNodeAddr_lightning_encode(x, e)

\* list.lightning_encode(e) into a writer that already holds bytes
ListLightningEncodeInto ==
    \E list \in AddressListSamples, e \in WriterSamples :
        /\ op = "init"
        /\ op' = "AddressList_lightning_encode(e)"
        /\ input' = list
        /\ wire' = e
        /\ output' = AddressList_lightning_encode(list, e)

Next ==
    \/ U16FromExtensionId
    \/ ExtensionIdTryFrom
    \/ U16FromTxType
    \/ TxTypeFromThat
    \/ TxTypeFrom
    \/ U16FromThat
    \/ ChannelIdWith
    \/ ShortChannelIdNew
    \/ ShortChannelIdStrictEncode
    \/ ShortChannelIdStrictDecode
    \/ AddrLightningEncode
    \/ AddrLightningDecode
    \/ AddrToUniform
    \/ AddrFromUniform
    \/ ListLightningEncode
    \/ ListLightningDecode
    \/ ListLightningDecodeTruncated
    \/ AddrLightningEncodeFromUniform
    \/ AddrLightningEncodeInto
    \/ ListLightningEncodeInto

Spec == Init /\ [][Next]_vars

(***************************************************************************)
(* AddressList::lightning_encode one statement at a time, for lists too    *)
(* long to write out: the list is input.len copies of input.addr, and the  *)
(* writer is kept as the count prefix, the number of address encodings     *)
(* appended after it, and the number of bytes written.                     *)
(***************************************************************************)
LongListLens == {0, 1, 2, Pow2(16) - 1, Pow2(16), Pow2(16) + 1}

LongListElemSamples ==
    {IpV4(<<255, 254, 253, 252>>, 9735),
     OnionV3([i \in 1..32 |-> 256 - i], None, Some(16), 9735)}

\* let len = self.0.len() as u16; written += e.write(&len.to_be_bytes()[..])?;
LongEncodeCount ==
    \E a \in LongListElemSamples, n \in LongListLens :
        /\ op = "init"
        /\ op' = "AddressList_lightning_encode:count"
        /\ input' = [addr |-> a, len |-> n]
        /\ wire' = [count |-> u16_to_be_bytes(n % Pow2(16)), encodings |-> 0, written |-> 2]
        /\ output' = None

\* one turn of the loop: written += addr.lightning_encode(&mut e)?;
LongEncodeAddr ==
    /\ op \in {"AddressList_lightning_encode:count", "AddressList_lightning_encode:addr"}
    /\ wire.encodings < input.len
    /\ LET r == AnnouncedNodeAddr_lightning_encode(input.addr, <<>>) IN
       IF r.ok
       THEN /\ op' = "AddressList_lightning_encode:addr"
            /\ wire' = [wire EXCEPT !.encodings = @ + 1, !.written = @ + r.len]
            /\ output' = None
       ELSE /\ op' = "AddressList_lightning_encode:return"
            /\ wire' = [wire EXCEPT !.written = @ + Len(r.e)]
            /\ output' = Err(r.err)
    /\ UNCHANGED input

\* the loop is over: Ok(written)
LongEncodeReturn ==
    /\ op \in {"AddressList_lightning_encode:count", "AddressList_lightning_encode:addr"}
    /\ wire.encodings = input.len
    /\ op' = "AddressList_lightning_encode:return"
    /\ output' = Ok(wire.written)
    /\ UNCHANGED <<input, wire>>

NextLong ==
    \/ LongEncodeCount
    \/ LongEncodeAddr
    \/ LongEncodeReturn

SpecLong == Init /\ [][NextLong]_vars

(***************************************************************************)
(* Properties                                                              *)
(***************************************************************************)
\* an address lightning_encode can write: every OnionV3 field is present
WireEncodable(x) == x.tag = "OnionV3" => (x.checksum.some /\ x.version.some)

\* C1 as stated: for every AnnouncedNodeAddr x of any of the four variants,
\* lightning_encode succeeds and lightning_decode of its bytes succeeds and
\* yields x.
C1_AnyAddrWireRoundTrip ==
    /\ op = "AnnouncedNodeAddr_lightning_encode" => wire.ok
    /\ op = "AnnouncedNodeAddr_lightning_decode" => (output.ok /\ output.v = input)

\* C1 amended: for every AnnouncedNodeAddr x that is IpV4, IpV6, OnionV2, or
\* OnionV3 with both checksum and version present, lightning_encode succeeds
\* and lightning_decode of its bytes succeeds, consumes them all and yields x.
C1_WireRoundTrip ==
    /\ (op = "AnnouncedNodeAddr_lightning_encode" /\ WireEncodable(input)) => wire.ok
    /\ op = "AnnouncedNodeAddr_lightning_decode" =>
           (WireEncodable(input) /\ output = Decoded(input, <<>>))

C1_Witness ==
    /\ op = "AnnouncedNodeAddr_lightning_decode"
    /\ input.tag = "OnionV3"
    /\ input.port = 9735
    /\ output.ok

\* C2: for every txid and every output index idx in 0..65535, ChannelId::with
\* returns the txid with byte 30 XOR-ed with idx >> 8 and byte 31 XOR-ed with
\* idx & 0xFF, bytes 0..29 unchanged.
C2_ChannelIdXorsOutputIndex ==
    (op = "ChannelId_with" /\ input.vout <= 65535) =>
        wire = [input.txid EXCEPT ![30 + 1] = BitXor(@, input.vout \div 256),
                                  ![31 + 1] = BitXor(@, input.vout % 256)]

\* C3: for every txid and every two output indices idx # idx', the ids
\* ChannelId::with derives from (txid, idx) and (txid, idx') differ, and
\* deriving again from (txid, idx) gives the same id.
C3_ChannelIdDistinctPerIndex ==
    (op = "ChannelId_with" /\ input.vout <= 65535) =>
        /\ ChannelId_with(input) = wire
        /\ \A idx \in U16Samples :
               idx # input.vout => ChannelId_with(OutPoint(input.txid, idx)) # wire

\* C4: ShortChannelId::new returns None whenever height >= 2^24 or
\* tx_index >= 2^24, and a value only when both are at most 2^24 - 1.
C4_NewRejectsBeyond24Bits ==
    op = "ShortChannelId_new" =>
        /\ (input.block_height >= Pow2(24) \/ input.tx_index >= Pow2(24)) => ~wire.some
        /\ wire.some => (input.block_height <= Pow2(24) - 1 /\ input.tx_index <= Pow2(24) - 1)

\* C5: for every ShortChannelId that new returns, strict_encode yields exactly
\* 8 bytes and strict_decode of them yields a ShortChannelId with the same
\* block_height, tx_index and output_index.
C5_ShortChannelIdRoundTrip ==
    op = "ShortChannelId_strict_decode" =>
        /\ wire.ok
        /\ Len(wire.e) = 8
        /\ wire.len = 8
        /\ output = Ok(input)

\* C6: for every variant v, u16::from(v) completes with a code c such that
\* ExtensionId::try_from(c) = Ok(v); distinct variants get distinct codes; and
\* try_from fails for every code that is not the code of a variant.
C6_ExtensionIdBijection ==
    /\ op = "u16_from_ExtensionId" =>
           /\ ~wire.panic
           /\ ExtensionId_try_from(wire.v) = Ok(input)
           /\ \A other \in ExtensionId \ {input} : u16_from_ExtensionId(other) # wire
    /\ (op = "ExtensionId_try_from" /\ wire.ok) =>
           u16_from_ExtensionId(wire.v) = Returned(input)

\* C7 as stated: u16::from(TxType::from(n)) = n for every u16 n, and
\* TxType::from(u16::from(t)) = t for every TxType t.
C7_TxTypeRoundTripBothWays ==
    /\ op = "TxType_from;u16_from_TxType" => output = input
    /\ op = "u16_from_TxType;TxType_from" => (output.tag = input.tag /\ output = input)

\* C7 amended: u16::from(TxType::from(n)) = n for every u16 n, and
\* TxType::from(u16::from(t)) = t for every TxType t other than Unknown(0)
\* and Unknown(1), which come back as HtlcSuccess and HtlcTimeout.
C7_TxTypeRoundTrip ==
    /\ op = "TxType_from;u16_from_TxType" => output = input
    /\ op = "u16_from_TxType;TxType_from" =>
           IF input.tag = "Unknown" /\ input.x = 0 THEN output = HtlcSuccess
           ELSE IF input.tag = "Unknown" /\ input.x = 1 THEN output = HtlcTimeout
           ELSE output.tag = input.tag /\ output = input

C7_Witness ==
    /\ op = "u16_from_TxType;TxType_from"
    /\ input.tag = "Unknown"
    /\ input.x = 1
    /\ output.tag = "HtlcTimeout"

\* C8: for every IpV4, IpV6 or OnionV2 address x, to_uniform_addr gives the
\* format tag of x, a buffer of ADDR_LEN bytes ending with the address bytes
\* and the port of x, and from_uniform_addr of it succeeds and yields x.
C8_UniformRoundTrip ==
    (op = "from_uniform_addr" /\ input.tag \in {"IpV4", "IpV6", "OnionV2"}) =>
        /\ wire.addr_format = input.tag
        /\ Len(wire.addr) = ADDR_LEN
        /\ SliceFrom(wire.addr, ADDR_LEN - Len(input.addr)) = input.addr
        /\ wire.port = Some(input.port)
        /\ output = Ok(input)

C8_Witness ==
    /\ op = "from_uniform_addr"
    /\ input.tag = "IpV6"
    /\ At(input.addr, 0) # At(input.addr, 15)
    /\ output.ok

\* C9: for every OnionV3 address x, whatever its checksum and version,
\* from_uniform_addr(to_uniform_addr(x)) succeeds and yields an OnionV3
\* address with checksum None, version None and the key and port of x.
C9_OnionV3UniformLossy ==
    (op = "from_uniform_addr" /\ input.tag = "OnionV3") =>
        output = Ok(OnionV3(input.ed25519_pubkey, None, None, input.port))

C9_Witness ==
    /\ op = "from_uniform_addr"
    /\ input.tag = "OnionV3"
    /\ input.checksum.some
    /\ input.version.some
    /\ At(input.ed25519_pubkey, 0) # At(input.ed25519_pubkey, 31)
    /\ output.ok
    /\ ~output.v.checksum.some

RECURSIVE WireOfEach(_, _)
\* the wire encodings of list[i..], one after the other
WireOfEach(list, i) ==
    IF i > Len(list) THEN <<>>
    ELSE AnnouncedNodeAddr_lightning_encode(list[i], <<>>).e \o WireOfEach(list, i + 1)

\* a list lightning_encode can write: every address is encodable, and the
\* count fits 16 bits
ListWireEncodable(list) ==
    /\ Len(list) < Pow2(16)
    /\ \A i \in DOMAIN list : WireEncodable(list[i])

C11_EncodeFailsIffFieldMissing ==
    op = "AnnouncedNodeAddr_lightning_encode" =>
        /\ (input.tag = "OnionV3" /\ (~input.checksum.some \/ ~input.version.some)) =>
               (~wire.ok /\ wire.err = "InvalidData")
        /\ (input.tag = "OnionV3" /\ input.checksum.some /\ input.version.some) =>
               (wire.ok /\ wire.len = Len(wire.e))
        /\ input.tag \in {"IpV4", "IpV6", "OnionV2"} => (wire.ok /\ wire.len = Len(wire.e))

C11_Witness ==
    /\ op = "AnnouncedNodeAddr_lightning_encode"
    /\ input.tag = "OnionV3"
    /\ input.checksum.some
    /\ ~input.version.some
    /\ ~wire.ok

\* C12: AddressList::lightning_decode of a stream whose 2-byte count is n
\* but which ends before n complete address encodings returns an error (the
\* reader's end-of-input error): no list comes back, shorter or padded, and
\* the loop calls the address decoder at least once and at most n times.
C12_ShortStreamIsAnError ==
    (op = "AddressList_lightning_decode(truncated)" /\ Len(wire) >= 2) =>
        LET n == u16_from_be_bytes(SubSeq(wire, 1, 2)) IN
        /\ n = Len(input)
        /\ ~output.ok
        /\ output.err = "Io"
        /\ DecodeAttempts(n, SliceFrom(wire, 2)) \in 1..n

C12_Witness ==
    /\ op = "AddressList_lightning_decode(truncated)"
    /\ Len(input) = 2
    /\ Len(wire) = 2 + Len(AnnouncedNodeAddr_lightning_encode(input[1], <<>>).e) + 1
    /\ ~output.ok

\* C13: with y = from_uniform_addr(to_uniform_addr(x)): if x is IpV4, IpV6 or
\* OnionV2, lightning_encode of y succeeds and writes the bytes that
\* lightning_encode of x writes; if x is OnionV3, lightning_encode of y fails
\* with InvalidData, also when x had its checksum and version.
C13_UniformThenWire ==
    op = "from_uniform_addr;lightning_encode" =>
        IF input.tag = "OnionV3"
        THEN ~output.ok /\ output.err = "InvalidData"
        ELSE /\ output.ok
             /\ AnnouncedNodeAddr_lightning_encode(input, <<>>).ok
             /\ output.e = AnnouncedNodeAddr_lightning_encode(input, <<>>).e

C13_Witness ==
    /\ op = "from_uniform_addr;lightning_encode"
    /\ input.tag = "OnionV3"
    /\ input.checksum.some
    /\ input.version.some
    /\ AnnouncedNodeAddr_lightning_encode(input, <<>>).ok
    /\ ~output.ok

\* C14: for every AddressList, of any length (65536 and above included), the
\* 2-byte count that lightning_encode writes equals the number of address
\* encodings that follow it in the output.
C14_CountEqualsEncodings ==
    (op = "AddressList_lightning_encode:return" /\ output.ok) =>
        u16_from_be_bytes(wire.count) = wire.encodings

\* C15 as stated: when lightning_encode fails because an OnionV3 address,
\* alone or in an AddressList, lacks its checksum or version, the writer holds
\* what it held before the call.
C15_FailureWritesNothing ==
    (op \in {"AnnouncedNodeAddr_lightning_encode(e)", "AddressList_lightning_encode(e)"}
     /\ ~output.ok) => output.e = wire

\* what the OnionV3 arm has written when it returns its error: the tag, the
\* key, and the checksum when it is the version that is missing
WrittenBeforeError(x) ==
    <<4>> \o x.ed25519_pubkey
          \o (IF x.checksum.some THEN u16_to_be_bytes(x.checksum.v) ELSE <<>>)

\* the first address of the list that lightning_encode cannot write
FirstUnencodable(list) ==
    CHOOSE j \in DOMAIN list :
        ~WireEncodable(list[j]) /\ \A i \in 1..(j - 1) : WireEncodable(list[i])

\* C15 amended: when lightning_encode fails because an OnionV3 address lacks
\* its checksum or version, the writer keeps what it held before the call and
\* has grown by the bytes written before the error: the tag byte 4 and the
\* 32-byte key of that address, then its 2-byte checksum when only the
\* version is missing; in an AddressList these follow the 2-byte count and
\* the complete encodings of the addresses before that one.
C15_FailureLeavesPartialOutput ==
    /\ (op = "AnnouncedNodeAddr_lightning_encode(e)" /\ ~output.ok) =>
           output.e = wire \o WrittenBeforeError(input)
    /\ (op = "AddressList_lightning_encode(e)" /\ ~output.ok) =>
           LET j == FirstUnencodable(input) IN
           output.e = wire \o u16_to_be_bytes(Len(input))
                           \o WireOfEach(SubSeq(input, 1, j - 1), 1)
                           \o WrittenBeforeError(input[j])

C15_Witness ==
    /\ op = "AddressList_lightning_encode(e)"
    /\ ~output.ok
    /\ Len(wire) > 0
    /\ Len(input) = 2
    /\ WireEncodable(input[1])
    /\ input[2].checksum.some

====
